---- MODULE Spec2Model ----
(***************************************************************************)
(* SimpleURemote 1.0: a one-slot learn-and-replay infrared remote.         *)
(* The model follows src/SimpleURemote1.0.cpp: setup() gives Init, and one *)
(* pass of loop() is the chain Sample -> [Arm -> Poll* -> CaptureCheck]    *)
(* -> [Replay] -> EndIter.  The infrared receiver (IRrecv) is interrupt    *)
(* driven, so the arrival of a complete message is a step of its own that  *)
(* may fall between any two steps of loop().                               *)
(***************************************************************************)
EXTENDS Integers, Sequences, FiniteSets

VARIABLES
    button1_state, button2_state,   \* levels read in this iteration
    button1_prev, button2_prev,     \* levels remembered from the last one
    pc,                             \* position inside loop()
    i,                              \* the for-loop counter of the capture
    rcv,                            \* the receiver: armed?, completed message
    results,                        \* decode_results, written by decode()
    success,                        \* local of the send branch
    led,                            \* level of led_pin
    ledLog,                         \* writes to led_pin in this iteration
    txLog,                          \* calls of irsend in this iteration
    outcome,                        \* how the most recent capture ended
    foundAt,                        \* poll attempt that found a decode, or 0
    checks,                         \* decode() calls made by this capture
    heldAtArm,                      \* message held when the capture began
    resultsStale,                   \* results predates the last enableIRIn
    firstTx,                        \* first irsend call since the last arm
    resent,                         \* a later send has replayed firstTx
    hist1, hist2,                   \* <<sample before, this sample>> per button
    ranCapture, ranReplay,          \* which branches ran in this iteration
    replayPath,                     \* branch the send took in this iteration
    ledAtTx,                        \* led writes made before irsend was called
    failed,                         \* a send since the last arm reported failure
    afterFail,                      \* this send followed such a failure
    moves1, moves2,                 \* level changes of each pin since the last read
    firstIter,                      \* loop() has not completed a pass yet
    prevFired1, prevFired2,         \* the branch ran in the pass before
    blinkArgs                       \* arguments of a blinkled call on its own

vars == <<button1_state, button2_state, button1_prev, button2_prev, pc, i,
          rcv, results, success, led, ledLog, txLog, outcome, foundAt,
          checks, heldAtArm, resultsStale, firstTx, resent, hist1, hist2,
          ranCapture, ranReplay, replayPath, ledAtTx, failed, afterFail,
          moves1, moves2, firstIter, prevFired1, prevFired2, blinkArgs>>

-----------------------------------------------------------------------------
(* Levels and program constants *)

LOW == 0
HIGH == 1
Levels == {LOW, HIGH}

kFrequency == 38000
MaxAttempts == 20
kRawTick == 2
UINT16_MAX == 65535

(* Bounds of the message universe *)
MaxRawLen == 2
MaxValue == 2

(* Bounds of the inputs: button movements between two reads, and the      *)
(* arguments of a blink on its own                                        *)
MaxMoves == 2
MaxBlinks == 5
MaxBlinkDelay == 1

-----------------------------------------------------------------------------
(* Messages the receive engine can hand over.  A message is what the      *)
(* decoders make of the captured buffer: protocol, bit count, value,      *)
(* state[] and the raw tick buffer (rawbuf[0] is the leading gap).        *)

NoSignal == [decode_type |-> "none", bits |-> 0, value |-> 0,
             state |-> <<>>, rawbuf |-> <<>>]

Ticks == {300, 40000}

RECURSIVE SeqsOfLen(_)
SeqsOfLen(n) ==
    IF n = 0 THEN {<<>>}
    ELSE {Append(s, t) : s \in SeqsOfLen(n - 1), t \in Ticks}

RawBufs == UNION {{<<0>> \o s : s \in SeqsOfLen(n)} : n \in 1..MaxRawLen}

StatelessProtocols == {"NEC", "SONY"}
StatefulProtocols == {"DAIKIN"}

hasACState(protocol) == protocol \in StatefulProtocols

UnknownSignals ==
    {[decode_type |-> "UNKNOWN", bits |-> Len(b) \div 2, value |-> 0,
      state |-> <<>>, rawbuf |-> b] : b \in RawBufs}

StatelessSignals ==
    {[decode_type |-> p, bits |-> IF p = "NEC" THEN 32 ELSE 12, value |-> v,
      state |-> <<>>, rawbuf |-> <<0, 300>>] :
        p \in StatelessProtocols, v \in 1..MaxValue}

StatefulSignals ==
    {[decode_type |-> "DAIKIN", bits |-> n, value |-> 0,
      state |-> st, rawbuf |-> <<0, 300>>] :
        n \in {16, 20}, st \in {<<17, 34, 51>>, <<1, 2, 3>>}}

Signals == UnknownSignals \cup StatelessSignals \cup StatefulSignals

-----------------------------------------------------------------------------
(* The receive engine as the program sees it *)

\* irrecv.decode(&results): is a completed message waiting?
decodeOk(r) == r.buf # NoSignal

\* what decode() leaves in results: the message, or results untouched
decodeResults(r, res) == IF r.buf # NoSignal THEN r.buf ELSE res

\* irrecv.enableIRIn(): arm and start over with an empty buffer
enableIRIn(r) == [enabled |-> TRUE, buf |-> NoSignal]

\* resultToRawArray(): ticks to microseconds, long durations split
RECURSIVE SplitUsecs(_)
SplitUsecs(usecs) ==
    IF usecs > UINT16_MAX
    THEN <<UINT16_MAX, 0>> \o SplitUsecs(usecs - UINT16_MAX)
    ELSE <<usecs>>

RECURSIVE RawFrom(_, _)
RawFrom(buf, k) ==
    IF k > Len(buf) THEN <<>>
    ELSE SplitUsecs(buf[k] * kRawTick) \o RawFrom(buf, k + 1)

resultToRawArray(res) == RawFrom(res.rawbuf, 2)

\* getCorrectedRawLength(): entries of that array
RECURSIVE ExtraFrom(_, _)
ExtraFrom(buf, k) ==
    IF k > Len(buf) THEN 0
    ELSE (IF buf[k] = 0 THEN 0
          ELSE 2 * (((buf[k] * kRawTick) - 1) \div UINT16_MAX))
         + ExtraFrom(buf, k + 1)

getCorrectedRawLength(res) == (Len(res.rawbuf) - 1) + ExtraFrom(res.rawbuf, 2)

\* The one remembered signal: the completed message the receiver holds
RememberedSignal == rcv.buf

Classification(sig) ==
    IF sig = NoSignal THEN "Empty"
    ELSE IF sig.decode_type = "UNKNOWN" THEN "Raw"
    ELSE "Classified"

-----------------------------------------------------------------------------
(* Feedback indicator *)

\* the loop written with <= : one pulse too many
RECURSIVE blinkledOneMore(_, _, _)
blinkledOneMore(log, blink_delay, multiplier) ==
    IF multiplier < 0 THEN log
    ELSE blinkledOneMore(log \o <<<<HIGH, blink_delay>>, <<LOW, blink_delay>>>>,
                         blink_delay, multiplier - 1)

RECURSIVE blinkled(_, _, _)
blinkled(log, blink_delay, multiplier) ==
    IF multiplier <= 0 THEN log
    ELSE blinkled(log \o <<<<HIGH, blink_delay>>, <<LOW, blink_delay>>>>,
                  blink_delay, multiplier - 1)

\* level of the pin once the writes of a log are done
LevelAfter(level, log) == IF log = <<>> THEN level ELSE log[Len(log)][1]

-----------------------------------------------------------------------------
(* Initial state: the globals' initialisers and setup() *)

NoBlink == [from |-> LOW, delay |-> 0, multiplier |-> 0]

NoTx == [fn |-> "none", protocol |-> "none", data |-> <<>>, len |-> 0, hz |-> 0]

\* everything but the button levels, the indicator and the position
InitRest ==
    /\ i = 0
    /\ rcv = [enabled |-> FALSE, buf |-> NoSignal]
    /\ results = NoSignal
    /\ success = TRUE
    /\ ledLog = <<>>
    /\ txLog = <<>>
    /\ outcome = "none"
    /\ foundAt = 0
    /\ checks = 0
    /\ heldAtArm = NoSignal
    /\ resultsStale = FALSE
    /\ firstTx = NoTx
    /\ resent = FALSE
    /\ hist1 = <<HIGH, HIGH>> /\ hist2 = <<HIGH, HIGH>>
    /\ ranCapture = FALSE /\ ranReplay = FALSE
    /\ replayPath = "none"
    /\ ledAtTx = -1
    /\ failed = FALSE /\ afterFail = FALSE
    /\ moves1 = 0 /\ moves2 = 0
    /\ firstIter = TRUE
    /\ prevFired1 = FALSE /\ prevFired2 = FALSE
    /\ blinkArgs = NoBlink

\* both previous levels start LOW
InitPrevLow ==
    /\ button1_state = HIGH /\ button2_state = HIGH
    /\ button1_prev = LOW /\ button2_prev = LOW
    /\ pc = "head"
    /\ led = LOW
    /\ InitRest

\* lines 86-92 and setup()
Init ==
    /\ button1_state = HIGH /\ button2_state = HIGH
    /\ button1_prev = HIGH /\ button2_prev = HIGH
    /\ pc = "head"
    /\ led = LOW
    /\ InitRest

-----------------------------------------------------------------------------
(* Input sampler *)

\* the edge taken on the press instead of the release
RecordRequestedOnPress(prev, state) == (prev = HIGH) /\ (state = LOW)

\* line 146: button 1 was pressed and is now released
RecordRequested(prev, state) == (prev = LOW) /\ (state = HIGH)

\* line 192: button 2 was pressed and is now released
SendRequested(prev, state) == (prev = LOW) /\ (state = HIGH)

\* digitalRead(): the level of a pin now, which is the level read last
\* time changed as often as the button moved since
digitalRead(last, changes) == IF changes % 2 = 0 THEN last ELSE 1 - last

\* where loop() goes once the capture branch is done or skipped
AfterCapture ==
    IF SendRequested(button2_prev, button2_state) THEN "replay" ELSE "end"

\* a release between two reads is latched and served at the next read
SampleLatching ==
    /\ pc = "head"
    /\ \E k1 \in 0..MaxMoves, k2 \in 0..MaxMoves :
       LET l1 == digitalRead(button1_state, k1)
           l2 == digitalRead(button2_state, k2)
       IN
        /\ moves1' = k1
        /\ moves2' = k2
        /\ button1_state' = l1
        /\ button2_state' = l2
        /\ hist1' = <<hist1[2], l1>>
        /\ hist2' = <<hist2[2], l2>>
        /\ pc' = IF RecordRequested(button1_prev, l1)
                    \/ (k1 >= 2 /\ l1 = HIGH) THEN "arm"
                 ELSE IF SendRequested(button2_prev, l2)
                    \/ (k2 >= 2 /\ l2 = HIGH) THEN "replay"
                 ELSE "end"
    /\ UNCHANGED <<button1_prev, button2_prev, i, rcv, results, success, led,
                   ledLog, txLog, outcome, foundAt, checks, heldAtArm,
                   resultsStale, firstTx, resent, ranCapture, ranReplay,
                   replayPath, ledAtTx, failed, afterFail, firstIter,
                   prevFired1, prevFired2, blinkArgs>>

\* lines 142-146: read both buttons, test button 1
Sample ==
    /\ pc = "head"
    /\ \E k1 \in 0..MaxMoves, k2 \in 0..MaxMoves :
       LET l1 == digitalRead(button1_state, k1)
           l2 == digitalRead(button2_state, k2)
       IN
        /\ moves1' = k1
        /\ moves2' = k2
        /\ button1_state' = l1
        /\ button2_state' = l2
        /\ hist1' = <<hist1[2], l1>>
        /\ hist2' = <<hist2[2], l2>>
        /\ pc' = IF RecordRequested(button1_prev, l1) THEN "arm"
                 ELSE IF SendRequested(button2_prev, l2) THEN "replay"
                 ELSE "end"
    /\ UNCHANGED <<button1_prev, button2_prev, i, rcv, results, success, led,
                   ledLog, txLog, outcome, foundAt, checks, heldAtArm,
                   resultsStale, firstTx, resent, ranCapture, ranReplay,
                   replayPath, ledAtTx, failed, afterFail, firstIter,
                   prevFired1, prevFired2, blinkArgs>>

-----------------------------------------------------------------------------
(* Capture controller *)

\* lines 150-163: arm the receiver, one pulse, indicator on, i = 0
Arm ==
    /\ pc = "arm"
    /\ rcv' = enableIRIn(rcv)
    /\ ledLog' = Append(blinkled(ledLog, 500, 1), <<HIGH, 0>>)
    /\ led' = HIGH
    /\ i' = 0
    /\ pc' = "wait"
    /\ outcome' = "none"
    /\ foundAt' = 0
    /\ checks' = 0
    /\ heldAtArm' = rcv.buf
    /\ resultsStale' = (results # NoSignal)
    /\ firstTx' = NoTx
    /\ resent' = FALSE
    /\ failed' = FALSE
    /\ ranCapture' = TRUE
    /\ UNCHANGED <<button1_state, button2_state, button1_prev, button2_prev,
                   results, success, txLog, hist1, hist2, ranReplay,
                   replayPath, ledAtTx, afterFail, moves1, moves2, firstIter,
                   prevFired1, prevFired2, blinkArgs>>

\* the loop condition written with <= : a 21st pass
BudgetLeftInclusive(n) == n <= MaxAttempts

\* line 163: the loop condition
BudgetLeft(n) == n < MaxAttempts

\* button 2 served inside the waiting loop
PollServesSend ==
    /\ pc = "wait"
    /\ BudgetLeft(i)
    /\ checks' = checks + 1
    /\ txLog' = (IF SendRequested(button2_prev, button2_state)
                    /\ results # NoSignal
                 THEN Append(txLog, [fn |-> "sendValue",
                                     protocol |-> results.decode_type,
                                     data |-> <<results.value>>,
                                     len |-> results.bits, hz |-> 0])
                 ELSE txLog)
    /\ results' = decodeResults(rcv, results)
    /\ resultsStale' = (IF decodeOk(rcv) THEN FALSE ELSE resultsStale)
    /\ IF decodeOk(rcv)
       THEN /\ foundAt' = i + 1
            /\ i' = i
            /\ pc' = "check"
       ELSE /\ foundAt' = foundAt
            /\ i' = i + 1
            /\ pc' = IF BudgetLeft(i + 1) THEN "wait" ELSE "check"
    /\ UNCHANGED <<button1_state, button2_state, button1_prev, button2_prev,
                   rcv, success, led, ledLog, outcome, heldAtArm,
                   firstTx, resent, hist1, hist2, ranCapture, ranReplay,
                   replayPath, ledAtTx, failed, afterFail, moves1, moves2,
                   firstIter, prevFired1, prevFired2, blinkArgs>>

\* lines 163-171: one pass of the waiting loop
Poll ==
    /\ pc = "wait"
    /\ BudgetLeft(i)
    /\ checks' = checks + 1
    /\ results' = decodeResults(rcv, results)
    /\ resultsStale' = (IF decodeOk(rcv) THEN FALSE ELSE resultsStale)
    /\ IF decodeOk(rcv)
       THEN /\ foundAt' = i + 1
            /\ i' = i
            /\ pc' = "check"
       ELSE /\ foundAt' = foundAt
            /\ i' = i + 1
            /\ pc' = IF BudgetLeft(i + 1) THEN "wait" ELSE "check"
    /\ UNCHANGED <<button1_state, button2_state, button1_prev, button2_prev,
                   rcv, success, led, ledLog, txLog, outcome, heldAtArm,
                   firstTx, resent, hist1, hist2, ranCapture, ranReplay,
                   replayPath, ledAtTx, failed, afterFail, moves1, moves2,
                   firstIter, prevFired1, prevFired2, blinkArgs>>

\* three pulses on success, the pattern of the send branch
CaptureFeedbackThree(ok, log) ==
    IF ok THEN blinkled(log, 50, 3) ELSE Append(log, <<LOW, 0>>)

\* the indicator left on after a timeout
CaptureFeedbackStaysOn(ok, log) ==
    IF ok THEN blinkled(log, 50, 5) ELSE log

\* lines 175-188: five fast pulses on a decode, else the indicator off
CaptureFeedback(ok, log) ==
    IF ok THEN blinkled(log, 50, 5) ELSE Append(log, <<LOW, 0>>)

\* the outcome taken from the loop counter instead of a decode check
CaptureCheckByCounter ==
    /\ pc = "check"
    /\ checks' = checks
    /\ results' = results
    /\ resultsStale' = resultsStale
    /\ IF i < MaxAttempts
       THEN /\ ledLog' = blinkled(ledLog, 50, 5)
            /\ outcome' = "Captured"
       ELSE /\ ledLog' = Append(ledLog, <<LOW, 0>>)
            /\ outcome' = "TimedOut"
    /\ led' = LevelAfter(led, ledLog')
    /\ pc' = AfterCapture
    /\ UNCHANGED <<button1_state, button2_state, button1_prev, button2_prev,
                   i, rcv, success, txLog, foundAt, heldAtArm, firstTx,
                   resent, hist1, hist2, ranCapture, ranReplay, replayPath,
                   ledAtTx, failed, afterFail, moves1, moves2, firstIter,
                   prevFired1, prevFired2, blinkArgs>>

\* a capture that finds nothing starts its waiting loop over
CaptureCheckRetry ==
    /\ pc = "check"
    /\ results' = decodeResults(rcv, results)
    /\ resultsStale' = (IF decodeOk(rcv) THEN FALSE ELSE resultsStale)
    /\ IF decodeOk(rcv)
       THEN /\ ledLog' = blinkled(ledLog, 50, 5)
            /\ outcome' = "Captured"
            /\ checks' = checks + 1
            /\ i' = i
            /\ pc' = AfterCapture
       ELSE /\ ledLog' = ledLog
            /\ outcome' = outcome
            /\ checks' = 0
            /\ i' = 0
            /\ pc' = "wait"
    /\ led' = LevelAfter(led, ledLog')
    /\ UNCHANGED <<button1_state, button2_state, button1_prev, button2_prev,
                   rcv, success, txLog, foundAt, heldAtArm, firstTx, resent,
                   hist1, hist2, ranCapture, ranReplay, replayPath, ledAtTx,
                   failed, afterFail, moves1, moves2, firstIter, prevFired1,
                   prevFired2, blinkArgs>>

\* lines 175-189: the check after the loop decides the outcome
CaptureCheck ==
    /\ pc = "check"
    /\ checks' = checks + 1
    /\ results' = decodeResults(rcv, results)
    /\ resultsStale' = (IF decodeOk(rcv) THEN FALSE ELSE resultsStale)
    /\ ledLog' = CaptureFeedback(decodeOk(rcv), ledLog)
    /\ outcome' = (IF decodeOk(rcv) THEN "Captured" ELSE "TimedOut")
    /\ led' = LevelAfter(led, ledLog')
    /\ pc' = AfterCapture
    /\ UNCHANGED <<button1_state, button2_state, button1_prev, button2_prev,
                   i, rcv, success, txLog, foundAt, heldAtArm, firstTx,
                   resent, hist1, hist2, ranCapture, ranReplay, replayPath,
                   ledAtTx, failed, afterFail, moves1, moves2, firstIter,
                   prevFired1, prevFired2, blinkArgs>>

-----------------------------------------------------------------------------
(* Replay controller *)

\* the first else dropped: an unrecognized result is sent twice
DispatchNoElse(res) ==
    (IF res.decode_type = "UNKNOWN"
     THEN <<[fn |-> "sendRaw", protocol |-> "none",
             data |-> resultToRawArray(res),
             len |-> getCorrectedRawLength(res) % 65536,
             hz |-> kFrequency]>>
     ELSE <<>>)
    \o (IF hasACState(res.decode_type)
        THEN <<[fn |-> "sendBytes", protocol |-> res.decode_type,
                data |-> res.state, len |-> (res.bits % 65536) \div 8,
                hz |-> 0]>>
        ELSE <<[fn |-> "sendValue", protocol |-> res.decode_type,
                data |-> <<res.value>>, len |-> res.bits % 65536,
                hz |-> 0]>>)

\* size left at results.bits for the raw array
DispatchRawBits(res) ==
    IF res.decode_type = "UNKNOWN"
    THEN <<[fn |-> "sendRaw", protocol |-> "none",
            data |-> resultToRawArray(res),
            len |-> res.bits % 65536,
            hz |-> kFrequency]>>
    ELSE IF hasACState(res.decode_type)
    THEN <<[fn |-> "sendBytes", protocol |-> res.decode_type,
            data |-> res.state, len |-> (res.bits % 65536) \div 8,
            hz |-> 0]>>
    ELSE <<[fn |-> "sendValue", protocol |-> res.decode_type,
            data |-> <<res.value>>, len |-> res.bits % 65536, hz |-> 0]>>

\* the bit count passed where send() wants a byte count
DispatchBytesBits(res) ==
    IF res.decode_type = "UNKNOWN"
    THEN <<[fn |-> "sendRaw", protocol |-> "none",
            data |-> resultToRawArray(res),
            len |-> getCorrectedRawLength(res) % 65536,
            hz |-> kFrequency]>>
    ELSE IF hasACState(res.decode_type)
    THEN <<[fn |-> "sendBytes", protocol |-> res.decode_type,
            data |-> res.state, len |-> res.bits % 65536,
            hz |-> 0]>>
    ELSE <<[fn |-> "sendValue", protocol |-> res.decode_type,
            data |-> <<res.value>>, len |-> res.bits % 65536, hz |-> 0]>>

\* lines 201-235: the irsend calls made for a decoded result.  size is a
\* uint16_t; sendRaw has no protocol argument and send() no frequency.
Dispatch(res) ==
    IF res.decode_type = "UNKNOWN"
    THEN <<[fn |-> "sendRaw", protocol |-> "none",
            data |-> resultToRawArray(res),
            len |-> getCorrectedRawLength(res) % 65536,
            hz |-> kFrequency]>>
    ELSE IF hasACState(res.decode_type)
    THEN <<[fn |-> "sendBytes", protocol |-> res.decode_type,
            data |-> res.state, len |-> (res.bits % 65536) \div 8,
            hz |-> 0]>>
    ELSE <<[fn |-> "sendValue", protocol |-> res.decode_type,
            data |-> <<res.value>>, len |-> res.bits % 65536, hz |-> 0]>>

\* the calls made whenever results holds anything, decode() unchecked
ReplayCallsUnchecked(ok, res) == IF res # NoSignal THEN Dispatch(res) ELSE <<>>

\* lines 195-249: the transmit engine is called only after a decode
ReplayCalls(ok, res) == IF ok THEN Dispatch(res) ELSE <<>>

\* the send branch ending with irrecv.resume(), as a repeater would
ReplayThenResume ==
    /\ pc = "replay"
    /\ results' = decodeResults(rcv, results)
    /\ resultsStale' = (IF decodeOk(rcv) THEN FALSE ELSE resultsStale)
    /\ txLog' = txLog \o ReplayCalls(decodeOk(rcv), results')
    /\ IF decodeOk(rcv)
       THEN /\ ledLog' = blinkled(ledLog, 30, 3)
            /\ \E ok \in BOOLEAN :
                 success' = (IF results'.decode_type = "UNKNOWN" THEN TRUE
                             ELSE ok)
            /\ replayPath' = "sent"
            /\ firstTx' = (IF firstTx = NoTx /\ txLog' # <<>>
                           THEN txLog'[1] ELSE firstTx)
            /\ resent' = (firstTx # NoTx)
            /\ ledAtTx' = Len(ledLog')
            /\ failed' = (failed \/ ~success')
            /\ afterFail' = failed
       ELSE /\ ledLog' = blinkled(ledLog, 600, 2)
            /\ success' = success
            /\ replayPath' = "nothing"
            /\ firstTx' = firstTx
            /\ resent' = resent
            /\ ledAtTx' = ledAtTx
            /\ failed' = failed
            /\ afterFail' = afterFail
    /\ led' = LevelAfter(led, ledLog')
    /\ ranReplay' = TRUE
    /\ pc' = "end"
    /\ rcv' = (IF decodeOk(rcv) THEN enableIRIn(rcv) ELSE rcv)
    /\ UNCHANGED <<button1_state, button2_state, button1_prev, button2_prev,
                   i, outcome, foundAt, checks, heldAtArm, hist1, hist2,
                   ranCapture, moves1, moves2, firstIter, prevFired1,
                   prevFired2, blinkArgs>>

\* irsend called first, the three pulses after it
ReplaySendThenBlink ==
    /\ pc = "replay"
    /\ results' = decodeResults(rcv, results)
    /\ resultsStale' = (IF decodeOk(rcv) THEN FALSE ELSE resultsStale)
    /\ txLog' = txLog \o ReplayCalls(decodeOk(rcv), results')
    /\ IF decodeOk(rcv)
       THEN /\ ledLog' = blinkled(ledLog, 30, 3)
            /\ \E ok \in BOOLEAN :
                 success' = (IF results'.decode_type = "UNKNOWN" THEN TRUE
                             ELSE ok)
            /\ replayPath' = "sent"
            /\ firstTx' = (IF firstTx = NoTx /\ txLog' # <<>>
                           THEN txLog'[1] ELSE firstTx)
            /\ resent' = (firstTx # NoTx)
            /\ ledAtTx' = Len(ledLog)
            /\ failed' = (failed \/ ~success')
            /\ afterFail' = failed
       ELSE /\ ledLog' = blinkled(ledLog, 600, 2)
            /\ success' = success
            /\ replayPath' = "nothing"
            /\ firstTx' = firstTx
            /\ resent' = resent
            /\ ledAtTx' = ledAtTx
            /\ failed' = failed
            /\ afterFail' = afterFail
    /\ led' = LevelAfter(led, ledLog')
    /\ ranReplay' = TRUE
    /\ pc' = "end"
    /\ UNCHANGED <<button1_state, button2_state, button1_prev, button2_prev,
                   i, rcv, outcome, foundAt, checks, heldAtArm, hist1, hist2,
                   ranCapture, moves1, moves2, firstIter, prevFired1,
                   prevFired2, blinkArgs>>

\* a failed transmission repeated at once
ReplayRetries ==
    /\ pc = "replay"
    /\ results' = decodeResults(rcv, results)
    /\ resultsStale' = (IF decodeOk(rcv) THEN FALSE ELSE resultsStale)
    /\ IF decodeOk(rcv)
       THEN /\ ledLog' = blinkled(ledLog, 30, 3)
            /\ \E ok \in BOOLEAN :
                 success' = (IF results'.decode_type = "UNKNOWN" THEN TRUE
                             ELSE ok)
            /\ replayPath' = "sent"
            /\ firstTx' = (IF firstTx = NoTx
                           THEN ReplayCalls(TRUE, results')[1] ELSE firstTx)
            /\ resent' = (firstTx # NoTx)
            /\ ledAtTx' = Len(ledLog')
            /\ failed' = (failed \/ ~success')
            /\ afterFail' = failed
       ELSE /\ ledLog' = blinkled(ledLog, 600, 2)
            /\ success' = success
            /\ replayPath' = "nothing"
            /\ firstTx' = firstTx
            /\ resent' = resent
            /\ ledAtTx' = ledAtTx
            /\ failed' = failed
            /\ afterFail' = afterFail
    /\ led' = LevelAfter(led, ledLog')
    /\ ranReplay' = TRUE
    /\ pc' = "end"
    /\ txLog' = txLog \o ReplayCalls(decodeOk(rcv), results')
                     \o (IF decodeOk(rcv) /\ ~success'
                         THEN ReplayCalls(TRUE, results') ELSE <<>>)
    /\ UNCHANGED <<button1_state, button2_state, button1_prev, button2_prev,
                   i, rcv, outcome, foundAt, checks, heldAtArm, hist1, hist2,
                   ranCapture, moves1, moves2, firstIter, prevFired1,
                   prevFired2, blinkArgs>>

\* lines 192-250: the send branch
Replay ==
    /\ pc = "replay"
    /\ results' = decodeResults(rcv, results)
    /\ resultsStale' = (IF decodeOk(rcv) THEN FALSE ELSE resultsStale)
    /\ txLog' = txLog \o ReplayCalls(decodeOk(rcv), results')
    /\ IF decodeOk(rcv)
       THEN /\ ledLog' = blinkled(ledLog, 30, 3)
            /\ \E ok \in BOOLEAN :
                 success' = (IF results'.decode_type = "UNKNOWN" THEN TRUE
                             ELSE ok)
            /\ replayPath' = "sent"
            /\ firstTx' = (IF firstTx = NoTx /\ txLog' # <<>>
                           THEN txLog'[1] ELSE firstTx)
            /\ resent' = (firstTx # NoTx)
            /\ ledAtTx' = Len(ledLog')
            /\ failed' = (failed \/ ~success')
            /\ afterFail' = failed
       ELSE /\ ledLog' = blinkled(ledLog, 600, 2)
            /\ success' = success
            /\ replayPath' = "nothing"
            /\ firstTx' = firstTx
            /\ resent' = resent
            /\ ledAtTx' = ledAtTx
            /\ failed' = failed
            /\ afterFail' = afterFail
    /\ led' = LevelAfter(led, ledLog')
    /\ ranReplay' = TRUE
    /\ pc' = "end"
    /\ UNCHANGED <<button1_state, button2_state, button1_prev, button2_prev,
                   i, rcv, outcome, foundAt, checks, heldAtArm, hist1, hist2,
                   ranCapture, moves1, moves2, firstIter, prevFired1,
                   prevFired2, blinkArgs>>

-----------------------------------------------------------------------------
(* End of the iteration *)

\* the levels remembered only in an iteration where no branch ran
EndIterSkipsAfterEvent ==
    /\ pc = "end"
    /\ button1_prev' = (IF ranCapture \/ ranReplay THEN button1_prev
                        ELSE button1_state)
    /\ button2_prev' = (IF ranCapture \/ ranReplay THEN button2_prev
                        ELSE button2_state)
    /\ pc' = "head"
    /\ i' = 0
    /\ success' = TRUE
    /\ ledLog' = <<>>
    /\ txLog' = <<>>
    /\ foundAt' = 0
    /\ checks' = 0
    /\ heldAtArm' = NoSignal
    /\ ranCapture' = FALSE
    /\ ranReplay' = FALSE
    /\ replayPath' = "none"
    /\ ledAtTx' = -1
    /\ afterFail' = FALSE
    /\ moves1' = 0
    /\ moves2' = 0
    /\ firstIter' = FALSE
    /\ prevFired1' = ranCapture
    /\ prevFired2' = ranReplay
    /\ UNCHANGED <<button1_state, button2_state, rcv, results, led, outcome,
                   resultsStale, firstTx, resent, hist1, hist2, failed,
                   blinkArgs>>

\* lines 252-257: remember the levels; the per-iteration records start over
EndIter ==
    /\ pc = "end"
    /\ button1_prev' = button1_state
    /\ button2_prev' = button2_state
    /\ pc' = "head"
    /\ i' = 0
    /\ success' = TRUE
    /\ ledLog' = <<>>
    /\ txLog' = <<>>
    /\ foundAt' = 0
    /\ checks' = 0
    /\ heldAtArm' = NoSignal
    /\ ranCapture' = FALSE
    /\ ranReplay' = FALSE
    /\ replayPath' = "none"
    /\ ledAtTx' = -1
    /\ afterFail' = FALSE
    /\ moves1' = 0
    /\ moves2' = 0
    /\ firstIter' = FALSE
    /\ prevFired1' = ranCapture
    /\ prevFired2' = ranReplay
    /\ UNCHANGED <<button1_state, button2_state, rcv, results, led, outcome,
                   resultsStale, firstTx, resent, hist1, hist2, failed,
                   blinkArgs>>

-----------------------------------------------------------------------------
(* The receiver's interrupt side: an armed receiver that holds no message  *)
(* completes one.  Once it holds a message it ignores the line until it is *)
(* armed again.                                                            *)

SignalArrives ==
    /\ rcv.enabled
    /\ rcv.buf = NoSignal
    /\ \E s \in Signals : rcv' = [rcv EXCEPT !.buf = s]
    /\ UNCHANGED <<button1_state, button2_state, button1_prev, button2_prev,
                   pc, i, results, success, led, ledLog, txLog, outcome,
                   foundAt, checks, heldAtArm, resultsStale, firstTx, resent,
                   hist1, hist2, ranCapture, ranReplay, replayPath, ledAtTx,
                   failed, afterFail, moves1, moves2, firstIter, prevFired1,
                   prevFired2, blinkArgs>>

-----------------------------------------------------------------------------

Step == Sample \/ Arm \/ Poll \/ CaptureCheck \/ Replay \/ EndIter

Next ==
    \/ Sample
    \/ Arm
    \/ Poll
    \/ CaptureCheck
    \/ Replay
    \/ EndIter
    \/ SignalArrives

Spec == Init /\ [][Next]_vars

\* loop() is called again and again and each of its statements returns
FairSpec == Spec /\ WF_vars(Step)

TypeOK ==
    /\ pc \in {"head", "arm", "wait", "check", "replay", "end"}
    /\ i \in 0..MaxAttempts
    /\ led \in Levels
    /\ rcv.buf \in Signals \cup {NoSignal}
    /\ results \in Signals \cup {NoSignal}

-----------------------------------------------------------------------------
(* blinkled on its own: any pulse count, any delay, from either level *)

BlinkDelays == {30, 50, 500, 600} \cup (0..MaxBlinkDelay)

BlinkInit ==
    /\ button1_state = HIGH /\ button2_state = HIGH
    /\ button1_prev = HIGH /\ button2_prev = HIGH
    /\ pc = "blink"
    /\ led \in Levels
    /\ InitRest

\* digitalWrite(led_pin, level), as at lines 123, 157 and 187
BlinkSetLevel ==
    /\ pc \in {"blink", "blinked"}
    /\ \E level \in Levels : led' = level
    /\ pc' = "blink"
    /\ UNCHANGED <<button1_state, button2_state, button1_prev, button2_prev,
                   i, rcv, results, success, ledLog, txLog, outcome, foundAt,
                   checks, heldAtArm, resultsStale, firstTx, resent, hist1,
                   hist2, ranCapture, ranReplay, replayPath, ledAtTx, failed,
                   afterFail, moves1, moves2, firstIter, prevFired1,
                   prevFired2, blinkArgs>>

\* one call of blinkled(led_pin, blink_delay, multiplier)
BlinkCall ==
    /\ pc \in {"blink", "blinked"}
    /\ \E multiplier \in 0..MaxBlinks, blink_delay \in BlinkDelays :
        /\ blinkArgs' = [from |-> led, delay |-> blink_delay,
                         multiplier |-> multiplier]
        /\ ledLog' = blinkled(<<>>, blink_delay, multiplier)
    /\ led' = LevelAfter(led, ledLog')
    /\ pc' = "blinked"
    /\ UNCHANGED <<button1_state, button2_state, button1_prev, button2_prev,
                   i, rcv, results, success, txLog, outcome, foundAt,
                   checks, heldAtArm, resultsStale, firstTx, resent, hist1,
                   hist2, ranCapture, ranReplay, replayPath, ledAtTx, failed,
                   afterFail, moves1, moves2, firstIter, prevFired1,
                   prevFired2>>

BlinkNext ==
    \/ BlinkSetLevel
    \/ BlinkCall

BlinkSpec == BlinkInit /\ [][BlinkNext]_vars

-----------------------------------------------------------------------------
(* Shorthands for the properties *)

\* the step just taken was the send branch
ReplayStep == pc = "replay" /\ pc' # "replay"

\* the step just taken was the check that ends a capture
CaptureEnds == pc = "check" /\ pc' # "check"

Slow2 == <<<<HIGH, 600>>, <<LOW, 600>>, <<HIGH, 600>>, <<LOW, 600>>>>

-----------------------------------------------------------------------------
\* C1: after a capture that succeeded, every send made before the next
\* record request hands the transmit engine the same call (function,
\* protocol, payload, length) as the first such send, whatever the earlier
\* transmissions returned; and the send branch never changes the
\* remembered signal.
C1_IdempotentReplay ==
    /\ [](outcome = "Captured" =>
            \A k \in 1..Len(txLog) : txLog[k] = firstTx)
    /\ [][ReplayStep => rcv' = rcv]_vars

\* a second or later send after a successful capture, whose transmission
\* reported failure
C1_Witness ==
    outcome = "Captured" /\ resent /\ replayPath = "sent" /\ ~success

-----------------------------------------------------------------------------
\* C2 (as stated): the capture succeeds only if one of the at most 20 poll
\* attempts found a decode; with none found it ends TimedOut and Empty.
C2_OnlyPollsDecide ==
    (ranCapture /\ pc \in {"replay", "end"} /\ foundAt = 0)
        => (outcome = "TimedOut")

\* C2 (amended): a decode found at poll attempt k stops the polling at
\* attempt k and the capture ends Captured with a non-Empty remembered
\* signal; a capture ends TimedOut only after 20 polls and one further
\* check after the loop all found nothing; that further check, the 21st,
\* can still end the capture Captured.
C2_CaptureOutcome ==
    /\ (pc = "check" /\ foundAt > 0) => (i = foundAt - 1 /\ checks = foundAt)
    /\ (pc = "check" /\ foundAt = 0) => (i = 20 /\ checks = 20)
    /\ foundAt \in 0..20
    /\ (ranCapture /\ pc \in {"replay", "end"}) =>
         /\ foundAt > 0 => (outcome = "Captured" /\ checks = foundAt + 1)
         /\ outcome = "Captured" => RememberedSignal # NoSignal
         /\ outcome = "TimedOut" => (foundAt = 0 /\ checks = 21)
         /\ outcome \in {"Captured", "TimedOut"}

\* a capture whose 20 polls found nothing and that ended Captured
C2_Witness ==
    ranCapture /\ pc = "end" /\ foundAt = 0 /\ outcome = "Captured"

-----------------------------------------------------------------------------
\* C3: whatever was remembered when the capture began, a capture that ends
\* TimedOut leaves the remembered signal Empty as it ends, and a send only
\* ever transmits a result decoded after the receiver was last armed.
C3_TimeoutWipes ==
    /\ [][(CaptureEnds /\ outcome' = "TimedOut") => rcv'.buf = NoSignal]_vars
    /\ [](replayPath = "sent" => ~resultsStale)
    /\ []((outcome = "TimedOut" /\ txLog # <<>>) =>
            (rcv.buf # NoSignal /\ txLog = Dispatch(rcv.buf)))

\* a capture that began with a classified signal remembered, timed out,
\* and was followed in the same iteration by the nothing-to-send path
C3_Witness ==
    /\ outcome = "TimedOut"
    /\ Classification(heldAtArm) = "Classified"
    /\ replayPath = "nothing"
    /\ RememberedSignal = NoSignal

-----------------------------------------------------------------------------
\* C4 (as stated): from a timeout until the next record request the
\* remembered signal is Empty and no send reaches the transmit engine.
C4_EmptyAfterTimeout ==
    outcome = "TimedOut" => (RememberedSignal = NoSignal /\ txLog = <<>>)

-----------------------------------------------------------------------------
\* C5: a send that finds the remembered signal Empty makes no call to the
\* transmit engine, shows exactly two slow pulses, leaves the remembered
\* signal Empty and the indicator off, and returns to the end of the
\* iteration.
C5_SendOnEmpty ==
    [][(ReplayStep /\ RememberedSignal = NoSignal) =>
          /\ txLog' = <<>>
          /\ ledLog' = ledLog \o Slow2
          /\ led' = LOW
          /\ rcv' = rcv
          /\ pc' = "end"]_vars

\* the nothing-to-send path taken after a timeout, receiver still Empty
C5_Witness ==
    /\ replayPath = "nothing" /\ pc = "end"
    /\ outcome = "TimedOut" /\ RememberedSignal = NoSignal

-----------------------------------------------------------------------------
\* C6: a send on a non-Empty remembered signal makes exactly one call to
\* the transmit engine: sendRaw for an unrecognized protocol, the byte
\* form of send for a stateful one, the numeric form otherwise.
C6_ExactlyOneBranch ==
    /\ Len(txLog) <= 1
    /\ replayPath = "sent" =>
         /\ Len(txLog) = 1
         /\ RememberedSignal # NoSignal
         /\ txLog[1].fn =
              (IF RememberedSignal.decode_type = "UNKNOWN" THEN "sendRaw"
               ELSE IF RememberedSignal.decode_type \in StatefulProtocols
               THEN "sendBytes"
               ELSE "sendValue")
    /\ replayPath # "sent" => txLog = <<>>

\* a stateful signal was sent
C6_Witness ==
    replayPath = "sent" /\ RememberedSignal.decode_type = "DAIKIN"

-----------------------------------------------------------------------------
\* C7: a send on a Raw remembered signal calls sendRaw with the timing
\* array of that signal, its corrected element count and 38000 Hz.
C7_SendRaw ==
    (replayPath = "sent" /\ Classification(RememberedSignal) = "Raw") =>
        /\ txLog[1].fn = "sendRaw"
        /\ txLog[1].data = resultToRawArray(RememberedSignal)
        /\ txLog[1].len = getCorrectedRawLength(RememberedSignal)
        /\ txLog[1].hz = 38000

\* a raw signal with a duration too long for one entry was sent
C7_Witness ==
    /\ replayPath = "sent" /\ Classification(RememberedSignal) = "Raw"
    /\ txLog[1].len > Len(RememberedSignal.rawbuf) - 1

-----------------------------------------------------------------------------
\* C8: a send on a Classified remembered signal passes the remembered
\* protocol with, for a stateful protocol, the state bytes and length
\* bits / 8 (integer division), and for a stateless one the numeric value
\* and the bit count itself.
C8_SendClassified ==
    (replayPath = "sent" /\ Classification(RememberedSignal) = "Classified") =>
        /\ txLog[1].protocol = RememberedSignal.decode_type
        /\ RememberedSignal.decode_type \in StatefulProtocols =>
             /\ txLog[1].fn = "sendBytes"
             /\ txLog[1].data = RememberedSignal.state
             /\ txLog[1].len = RememberedSignal.bits \div 8
        /\ RememberedSignal.decode_type \notin StatefulProtocols =>
             /\ txLog[1].fn = "sendValue"
             /\ txLog[1].data = <<RememberedSignal.value>>
             /\ txLog[1].len = RememberedSignal.bits

\* a stateful signal whose bit count is no multiple of 8 was sent
C8_Witness ==
    /\ replayPath = "sent" /\ RememberedSignal.decode_type = "DAIKIN"
    /\ RememberedSignal.bits = 20 /\ txLog[1].len = 2

-----------------------------------------------------------------------------
\* C9: in every iteration and for each button on its own, the capture
\* (button 1) or the send (button 2) runs if and only if the level sampled
\* in the iteration before was LOW and the level sampled in this one is
\* HIGH.
C9_ReleaseEdge ==
    /\ pc \in {"arm", "wait", "check"} => hist1 = <<LOW, HIGH>>
    /\ pc = "replay" => hist2 = <<LOW, HIGH>>
    /\ ranCapture => hist1 = <<LOW, HIGH>>
    /\ ranReplay => hist2 = <<LOW, HIGH>>
    /\ pc = "end" =>
         /\ ranCapture <=> (hist1 = <<LOW, HIGH>>)
         /\ ranReplay <=> (hist2 = <<LOW, HIGH>>)

\* button 1 released while button 2 is held down: only the capture ran
C9_Witness ==
    /\ pc = "end" /\ ranCapture /\ ~ranReplay
    /\ hist1 = <<LOW, HIGH>> /\ hist2 = <<LOW, LOW>>

-----------------------------------------------------------------------------
\* C10: a capture makes at most 20 poll attempts, and every capture that
\* starts is followed by the end of its iteration and the return to the
\* head of the loop.
C10_BoundedWaiting ==
    /\ [](pc = "wait" => (i < 20 /\ checks = i))
    /\ [](pc = "check" => checks <= 20)
    /\ (pc = "arm") ~> (pc = "head")

\* the last of the 20 attempts is about to be made with no decode so far
C10_Witness ==
    pc = "wait" /\ i = 19 /\ RememberedSignal = NoSignal

-----------------------------------------------------------------------------
(* Indicator patterns *)

IsPrefix(p, q) == Len(p) <= Len(q) /\ SubSeq(q, 1, Len(p)) = p

\* one pulse, then the indicator switched on
ArmPattern == <<<<HIGH, 500>>, <<LOW, 500>>, <<HIGH, 0>>>>

Fast5 == <<<<HIGH, 50>>, <<LOW, 50>>, <<HIGH, 50>>, <<LOW, 50>>,
           <<HIGH, 50>>, <<LOW, 50>>, <<HIGH, 50>>, <<LOW, 50>>,
           <<HIGH, 50>>, <<LOW, 50>>>>

Fast3 == <<<<HIGH, 30>>, <<LOW, 30>>, <<HIGH, 30>>, <<LOW, 30>>,
           <<HIGH, 30>>, <<LOW, 30>>>>

\* the writes of the capture branch, once it has ended
CapturePattern ==
    ArmPattern \o (IF outcome = "Captured" THEN Fast5 ELSE <<<<LOW, 0>>>>)

-----------------------------------------------------------------------------
\* C11: a capture writes one 500 ms pulse and then switches the indicator
\* on, which stays on while the capture waits; a capture that succeeds
\* then writes exactly five 50 ms pulses whatever the classification of
\* the decode, and one that times out writes the indicator off and
\* nothing more.
C11_CaptureFeedback ==
    /\ pc \in {"wait", "check"} => (ledLog = ArmPattern /\ led = HIGH)
    /\ (ranCapture /\ pc \in {"replay", "end"}) =>
         /\ IsPrefix(CapturePattern, ledLog)
         /\ ~ranReplay => (ledLog = CapturePattern /\ led = LOW)

\* a capture of a stateful signal has ended with its five pulses
C11_Witness ==
    /\ ranCapture /\ pc = "end" /\ ~ranReplay /\ outcome = "Captured"
    /\ Classification(RememberedSignal) = "Classified"
    /\ hasACState(RememberedSignal.decode_type)
    /\ ledLog = ArmPattern \o Fast5

-----------------------------------------------------------------------------
\* the indicator writes of this iteration that came before the send branch
BeforeReplay == IF ranCapture THEN CapturePattern ELSE <<>>

\* C12: a send that finds a remembered signal writes the three 30 ms
\* pulses, all of them before the transmit engine is called, and never the
\* two slow pulses; a send that finds none writes the two slow pulses and
\* never the three fast ones.
C12_SendFeedback ==
    /\ [][ReplayStep =>
            ((replayPath' = "sent") <=> (RememberedSignal # NoSignal))]_vars
    /\ [](replayPath = "sent" =>
            /\ ledLog = BeforeReplay \o Fast3
            /\ txLog # <<>>
            /\ ledAtTx = Len(ledLog))
    /\ [](replayPath = "nothing" =>
            /\ ledLog = BeforeReplay \o Slow2
            /\ ledAtTx = -1)

\* a send right after a successful capture: 1, 5 and 3 pulses, then irsend
C12_Witness ==
    /\ replayPath = "sent" /\ ranCapture
    /\ ledLog = ArmPattern \o Fast5 \o Fast3
    /\ ledAtTx = 19

-----------------------------------------------------------------------------
\* C13: a send whose transmission reports failure leaves the remembered
\* signal as it was, has called the transmit engine exactly once, and ends
\* the send branch; the next send makes that same call again, once.
C13_FailureIsLocal ==
    /\ [][(ReplayStep /\ ~success') =>
            /\ rcv' = rcv
            /\ Len(txLog') = Len(txLog) + 1
            /\ txLog = <<>>
            /\ pc' = "end"]_vars
    /\ [](afterFail =>
            /\ txLog = <<firstTx>>
            /\ txLog = Dispatch(RememberedSignal))

\* a send that follows a failed one and fails again
C13_Witness ==
    afterFail /\ replayPath = "sent" /\ ~success /\ pc = "end"

-----------------------------------------------------------------------------
\* C14: a call of blinkled with pulse count n >= 1, from either indicator
\* level and with any delay, writes HIGH exactly n times and LOW exactly n
\* times, alternating and starting with HIGH, each followed by the delay,
\* and leaves the indicator LOW.
C14_Blink ==
    (pc = "blinked" /\ blinkArgs.multiplier >= 1) =>
        /\ Len(ledLog) = 2 * blinkArgs.multiplier
        /\ \A k \in 1..Len(ledLog) :
             ledLog[k] = <<(IF k % 2 = 1 THEN HIGH ELSE LOW), blinkArgs.delay>>
        /\ Cardinality({k \in 1..Len(ledLog) : ledLog[k][1] = HIGH})
             = blinkArgs.multiplier
        /\ Cardinality({k \in 1..Len(ledLog) : ledLog[k][1] = LOW})
             = blinkArgs.multiplier
        /\ led = LOW

\* five slow pulses asked for with the indicator on
C14_Witness ==
    /\ pc = "blinked"
    /\ blinkArgs = [from |-> HIGH, delay |-> 600, multiplier |-> 5]
    /\ Len(ledLog) = 10 /\ led = LOW

-----------------------------------------------------------------------------
\* a step of the capture or of the send branch
BranchStep == pc \in {"arm", "wait", "check", "replay"} /\ pc' # pc

\* C15: when an iteration has ended, each button's remembered previous
\* level is the level read at the start of that iteration, whether or not
\* a branch ran in it; the capture and the send branch change neither the
\* current nor the previous level of either button.
C15_PrevUpdate ==
    /\ [](pc = "head" =>
            (button1_prev = hist1[2] /\ button2_prev = hist2[2]))
    /\ [](button1_state = hist1[2] /\ button2_state = hist2[2])
    /\ [][pc = "end" /\ pc' = "head" =>
            (button1_prev' = button1_state /\ button2_prev' = button2_state)]_vars
    /\ [][(BranchStep \/ (pc = "wait" /\ i' # i)) =>
            UNCHANGED <<button1_state, button2_state,
                        button1_prev, button2_prev>>]_vars

\* the iteration just ended ran both branches; the released levels are
\* remembered
C15_Witness ==
    /\ pc = "head" /\ prevFired1 /\ prevFired2
    /\ hist1 = <<LOW, HIGH>> /\ hist2 = <<LOW, HIGH>>
    /\ button1_prev = HIGH /\ button2_prev = HIGH

-----------------------------------------------------------------------------
\* C16: a capture never starts while one is under way or has run in the
\* same iteration, and while a capture is arming, waiting or being checked
\* the send branch has not run: nothing was transmitted and no send
\* feedback was chosen.  The transmit engine is called by the send branch
\* only, and the send branch is the last thing an iteration does.
C16_NoOverlap ==
    /\ pc = "arm" => ~ranCapture
    /\ pc \in {"wait", "check"} => ranCapture
    /\ pc \in {"arm", "wait", "check"} =>
         (~ranReplay /\ replayPath = "none" /\ txLog = <<>> /\ ledAtTx = -1)
    /\ txLog # <<>> => ranReplay
    /\ ranReplay => pc = "end"

\* a capture is waiting in an iteration that will also serve a send
C16_Witness ==
    /\ pc = "wait" /\ i = 3 /\ ranCapture /\ ~ranReplay
    /\ SendRequested(button2_prev, button2_state)
    /\ results # NoSignal

-----------------------------------------------------------------------------
\* C17 (as stated): in an iteration where both buttons were released, the
\* capture has ended before the send branch runs, and the send branch
\* transmits the signal just captured, or takes the nothing-to-send path
\* if the capture timed out; a result decoded before this capture is never
\* transmitted.
C17_CaptureThenReplay ==
    (ranCapture /\ ranReplay) =>
        /\ outcome \in {"Captured", "TimedOut"}
        /\ outcome = "Captured" =>
             (replayPath = "sent" /\ txLog = Dispatch(RememberedSignal))
        /\ outcome = "TimedOut" =>
             (replayPath = "nothing" /\ txLog = <<>>)
        /\ replayPath = "sent" => ~resultsStale

-----------------------------------------------------------------------------
\* C18: the indicator is off at the head of every iteration and, between
\* the steps of an iteration, everywhere but in a capture that is waiting
\* for its decode, where it is on.
C18_Indicator ==
    /\ pc \in {"head", "arm", "replay", "end"} => led = LOW
    /\ pc \in {"wait", "check"} => led = HIGH

\* back at the head of the loop after a capture that timed out
C18_Witness ==
    pc = "head" /\ prevFired1 /\ outcome = "TimedOut" /\ led = LOW

-----------------------------------------------------------------------------
\* a button pressed and released again between two reads that both found
\* it released
Tapped(moves, hist) == moves > 0 /\ moves % 2 = 0 /\ hist = <<HIGH, HIGH>>

\* a button read as pressed and released before the next read
ReleasedSince(moves, hist) == moves % 2 = 1 /\ hist = <<LOW, HIGH>>

\* C19: a button pressed and released between two consecutive reads
\* starts nothing in the iteration of the second read, and leaves the
\* remembered level released; a button read as pressed and released
\* before the next read starts its branch in the iteration of that read.
C19_NotQueued ==
    /\ Tapped(moves1, hist1) =>
         (pc \notin {"arm", "wait", "check"} /\ ~ranCapture
          /\ button1_state = HIGH)
    /\ Tapped(moves2, hist2) =>
         (pc # "replay" /\ ~ranReplay /\ button2_state = HIGH)
    /\ (ReleasedSince(moves1, hist1) /\ pc \in {"replay", "end"}) => ranCapture
    /\ (ReleasedSince(moves2, hist2) /\ pc = "end") => ranReplay

\* the iteration before ran the send branch; button 2 was pressed and
\* released during it and nothing is sent now, while button 1, read as
\* pressed before it and released during it, has started a capture
C19_Witness ==
    /\ pc = "end" /\ prevFired2
    /\ Tapped(moves2, hist2) /\ ~ranReplay
    /\ ReleasedSince(moves1, hist1) /\ ranCapture

-----------------------------------------------------------------------------
\* C20: no branch runs in the first iteration, whatever the levels read
\* in it, and neither branch runs in two consecutive iterations.
C20_NoSpuriousEvents ==
    /\ firstIter => (pc \in {"head", "end"} /\ ~ranCapture /\ ~ranReplay)
    /\ (ranCapture \/ pc \in {"arm", "wait", "check"}) => ~prevFired1
    /\ (ranReplay \/ pc = "replay") => ~prevFired2

\* the first iteration has read both buttons as pressed and done nothing
C20_Witness ==
    /\ firstIter /\ pc = "end"
    /\ button1_state = LOW /\ button2_state = LOW

====
